---- MODULE Spec2Model ----
(***************************************************************************)
(* Model of electron/python-env/browser_automation_1769793283753.py: the   *)
(* command-line bridge that loads browser_use, parses one JSON argument,   *)
(* builds an LLM client, a browser session and an agent, runs the agent    *)
(* once and prints one JSON record.                                        *)
(*                                                                         *)
(* One invocation of the script is one behaviour.  Each statement of the   *)
(* script that can raise or that calls into browser_use is one action; pc  *)
(* is the statement about to run.  The calls into browser_use are outside  *)
(* the repository: each either returns an object or raises an Exception,   *)
(* chosen nondeterministically.  Exceptions that do not derive from        *)
(* Exception (KeyboardInterrupt, CancelledError) are not modelled.         *)
(***************************************************************************)
EXTENDS Integers, Sequences, FiniteSets, TLC

VARIABLES
    pc,             \* the statement about to run
    argv,           \* sys.argv; argv[1] here is sys.argv[0], argv[2] is sys.argv[1]
    imported,       \* TRUE once Agent, Browser, ChatOpenAI, ChatGoogle are bound
    config,         \* main's local `config`
    provider,       \* main's local `provider`
    llm,            \* main's local `llm`
    browser_kwargs, \* main's local `browser_kwargs`
    browser,        \* main's local `browser`
    agent,          \* main's local `agent`
    result,         \* main's local `result`
    exc,            \* the exception `e` bound by `except Exception as e`
    stdout,         \* the lines printed so far, each the record json.dumps was given
    stderr,         \* uncaught exceptions reported by the interpreter
    exit_status,    \* the process exit status, -1 while the process runs
    calls           \* the calls made into browser_use, in order

vars == <<pc, argv, imported, config, provider, llm, browser_kwargs, browser,
          agent, result, exc, stdout, stderr, exit_status, calls>>

locals == <<config, provider, llm, browser_kwargs, browser, agent, result>>

----------------------------------------------------------------------------
(* Bounds of the model.                                                    *)

MaxTasks == 2       \* distinct task strings
MaxProfiles == 2    \* distinct non-empty profile paths
MaxResults == 2     \* distinct objects agent.run() can return

----------------------------------------------------------------------------
(* Python values.  A JSON-decoded value is a tagged record; a dict is a    *)
(* function from its keys.  A local that is not bound yet is Unbound.      *)

Unbound == [t |-> "unbound"]
JStr(s) == [t |-> "str", s |-> s]
JNum(n) == [t |-> "num", n |-> n]
JNull == [t |-> "null"]
JList == [t |-> "list"]
JDict(d) == [t |-> "dict", d |-> d]

EmptyDict == << >>

\* Python truth value of a JSON-decoded value (the `and config[...]` test).
Truthy(v) ==
    CASE v.t = "str" -> v.s # ""
      [] v.t = "num" -> v.n # 0
      [] v.t = "null" -> FALSE
      [] v.t = "list" -> FALSE     \* the only list modelled is []
      [] v.t = "dict" -> DOMAIN v.d # {}

\* str(v) / format(v, "") of a JSON-decoded value, as the f-string uses it.
PyStr(v) ==
    CASE v.t = "str" -> v.s
      [] v.t = "num" -> ToString(v.n)
      [] v.t = "null" -> "None"
      [] v.t = "list" -> "[]"
      [] v.t = "dict" -> "{...}"

\* PyEq comparing without regard to case, as provider.lower() == s would.
PyEqIgnoreCase(v, s) ==
    /\ v.t = "str"
    /\ (IF v.s = "Gemini" THEN "gemini" ELSE v.s) = s

\* v == s for a str literal s.
PyEq(v, s) == v.t = "str" /\ v.s = s

\* An exception instance: its class name, str(e), and the line of main (or
\* of the module) the traceback points at.
Exc(type, msg, line) == [type |-> type, msg |-> msg, line |-> line]

\* str(KeyError(k)) is repr(k).
KeyErrorMsg(k) == "'" \o k \o "'"

\* The message of the TypeError raised by v[k] for a v that is no dict.
TypeErrorMsg(v) ==
    CASE v.t = "str" -> "string indices must be integers"
      [] v.t = "list" -> "list indices must be integers or slices, not str"
      [] v.t = "num" -> "'int' object is not subscriptable"
      [] v.t = "null" -> "'NoneType' object is not subscriptable"

\* v[k] succeeds.
CanSubscript(v, k) == v.t = "dict" /\ k \in DOMAIN v.d

\* The exception v[k] raises when it does not succeed.
SubscriptError(v, k, line) ==
    IF v.t = "dict" THEN Exc("KeyError", KeyErrorMsg(k), line)
    ELSE Exc("TypeError", TypeErrorMsg(v), line)

----------------------------------------------------------------------------
(* The inputs.                                                             *)

TaskValues == {JStr("task" \o ToString(i)) : i \in 1..MaxTasks}

ProfilePaths == {JStr("/profile" \o ToString(i)) : i \in 1..MaxProfiles}

\* Values of chrome_profile_path: paths, and the falsy "", null and 0.
ProfileValues == ProfilePaths \cup {JStr(""), JNull, JNum(0)}

ProviderValues ==
    {JStr("gemini"), JStr("openrouter"), JStr("bogus"), JStr("Gemini"), JNull}

\* A dict with the keys ks, each key k holding a value of choices[k].
DictsOver(ks, choices) == UNION {[sub -> UNION {choices[k] : k \in sub}] : sub \in SUBSET ks}

WellTyped(d, choices) == \A k \in DOMAIN d : d[k] \in choices[k]

LlmChoices ==
    [provider |-> ProviderValues, model |-> {JStr("m")}, api_key |-> {JStr("k")}]

LlmDicts ==
    {d \in DictsOver({"provider", "model", "api_key"}, LlmChoices) :
        WellTyped(d, LlmChoices)}

\* The `llm` member: a dict, or something that is no dict.
LlmValues == {JDict(d) : d \in LlmDicts} \cup {JStr("gemini"), JNull}

ConfigChoices ==
    [llm |-> LlmValues, task |-> TaskValues, chrome_profile_path |-> ProfileValues]

ConfigDicts ==
    {d \in DictsOver({"llm", "task", "chrome_profile_path"}, ConfigChoices) :
        WellTyped(d, ConfigChoices)}

\* The documents a well-formed argument can hold: objects, and non-objects.
JsonDocuments == {JDict(d) : d \in ConfigDicts} \cup {JList, JNull, JStr("task1")}

\* The text of sys.argv[1].  A well-formed text is represented by the
\* document it encodes, a malformed one by what is wrong with it.
WellFormedTexts == {[wellformed |-> TRUE, doc |-> v] : v \in JsonDocuments}

MalformedTexts ==
    {[wellformed |-> FALSE, msg |-> m] :
        m \in {"Expecting value: line 1 column 1 (char 0)",
               "Expecting property name enclosed in double quotes: line 1 column 2 (char 1)"}}

ArgTexts == WellFormedTexts \cup MalformedTexts

Script == "browser_automation_1769793283753.py"

\* sys.argv: the script name, then the argument when one was given.
ArgVectors == {<<Script>>} \cup {<<Script, a>> : a \in ArgTexts}

\* json.loads succeeds on the text.
json_loads_ok(text) == text.wellformed

\* json.loads(text) for a text it succeeds on.
json_loads(text) == text.doc

\* The exception json.loads(text) raises on a malformed text.
json_loads_error(text) == Exc("JSONDecodeError", text.msg, 18)

ImportErrorMessages ==
    {"No module named 'browser_use'",
     "cannot import name 'ChatGoogle' from 'browser_use'"}

\* The exceptions a call into browser_use can raise.
ExternalErrors ==
    {[type |-> "RuntimeError", msg |-> "browser_use failure"],
     [type |-> "ValueError", msg |-> "invalid api key"]}

Results == 1..MaxResults

\* str(result) of the object agent.run() returned.
StrResult(r) == "AgentHistoryList(" \o ToString(r) \o ")"

----------------------------------------------------------------------------

Init ==
    /\ pc = "import"
    /\ argv \in ArgVectors
    /\ imported = FALSE
    /\ config = Unbound
    /\ provider = Unbound
    /\ llm = Unbound
    /\ browser_kwargs = Unbound
    /\ browser = Unbound
    /\ agent = Unbound
    /\ result = Unbound
    /\ exc = Unbound
    /\ stdout = << >>
    /\ stderr = << >>
    /\ exit_status = -1
    /\ calls = << >>

\* print(json.dumps(record)).
PrintLine(record) == stdout' = Append(stdout, record)

\* An exception raised inside main's try block: control goes to the handler.
Raise(e) ==
    /\ exc' = e
    /\ pc' = "except"

\* An exception nothing catches: it leaves main and asyncio.run, the
\* interpreter reports it on stderr and the process ends with status 1.
Uncaught(e) ==
    /\ stderr' = Append(stderr, e)
    /\ exit_status' = 1
    /\ pc' = "exited"

\* A call into browser_use, with whether it returned.
Call(fn, kwargs, returned) == [fn |-> fn, kwargs |-> kwargs, returned |-> returned]

----------------------------------------------------------------------------
(* Lines 11-15: the import guard.                                          *)

\* The import succeeds; the module goes on to define main and to run it.
ImportSucceeds ==
    /\ pc = "import"
    /\ imported' = TRUE
    /\ pc' = "parse"
    /\ UNCHANGED <<argv, locals, exc, stdout, stderr, exit_status, calls>>

\* ImportError: print the record and sys.exit(1).
ImportFails ==
    /\ pc = "import"
    /\ \E m \in ImportErrorMessages :
          PrintLine([success |-> FALSE, error |-> "Package not installed: " \o m])
    /\ exit_status' = 1
    /\ pc' = "exited"
    /\ UNCHANGED <<argv, imported, locals, exc, stderr, calls>>

----------------------------------------------------------------------------
(* Line 18: config = json.loads(sys.argv[1]), before the try block.        *)

ParseConfig ==
    /\ pc = "parse"
    /\ Len(argv) >= 2
    /\ json_loads_ok(argv[2])
    /\ config' = json_loads(argv[2])
    /\ pc' = "provider"
    /\ UNCHANGED <<argv, imported, provider, llm, browser_kwargs, browser, agent,
                   result, exc, stdout, stderr, exit_status, calls>>

\* sys.argv[1] raises IndexError, or json.loads raises JSONDecodeError.
ParseConfigFails ==
    /\ pc = "parse"
    /\ \/ /\ Len(argv) < 2
          /\ Uncaught(Exc("IndexError", "list index out of range", 18))
       \/ /\ Len(argv) >= 2
          /\ ~json_loads_ok(argv[2])
          /\ Uncaught(json_loads_error(argv[2]))
    /\ UNCHANGED <<argv, imported, locals, exc, stdout, calls>>

----------------------------------------------------------------------------
(* Line 21: provider = config['llm']['provider'].                          *)

\* ReadProvider with the task field validated up front.
ReadProviderTaskFirst ==
    /\ pc = "provider"
    /\ IF ~CanSubscript(config, "task")
         THEN Raise(SubscriptError(config, "task", 48)) /\ UNCHANGED provider
         ELSE IF ~CanSubscript(config, "llm")
           THEN Raise(SubscriptError(config, "llm", 21)) /\ UNCHANGED provider
           ELSE IF ~CanSubscript(config.d["llm"], "provider")
             THEN Raise(SubscriptError(config.d["llm"], "provider", 21))
                  /\ UNCHANGED provider
             ELSE /\ provider' = config.d["llm"].d["provider"]
                  /\ pc' = "dispatch"
                  /\ UNCHANGED exc
    /\ UNCHANGED <<argv, imported, config, llm, browser_kwargs, browser, agent,
                   result, stdout, stderr, exit_status, calls>>

ReadProvider ==
    /\ pc = "provider"
    /\ IF ~CanSubscript(config, "llm")
         THEN Raise(SubscriptError(config, "llm", 21)) /\ UNCHANGED provider
         ELSE IF ~CanSubscript(config.d["llm"], "provider")
           THEN Raise(SubscriptError(config.d["llm"], "provider", 21))
                /\ UNCHANGED provider
           ELSE /\ provider' = config.d["llm"].d["provider"]
                /\ pc' = "dispatch"
                /\ UNCHANGED exc
    /\ UNCHANGED <<argv, imported, config, llm, browser_kwargs, browser, agent,
                   result, stdout, stderr, exit_status, calls>>

----------------------------------------------------------------------------
(* Lines 23-37: the provider dispatch.                                     *)

\* Evaluate the keyword arguments model and api_key in that order, then call
\* the client class cls with them and with the fixed arguments.
ConstructClient(cls, fixed, line) ==
    LET l == config.d["llm"] IN
    IF ~CanSubscript(l, "model")
      THEN Raise(SubscriptError(l, "model", line + 1)) /\ UNCHANGED <<llm, calls>>
      ELSE IF ~CanSubscript(l, "api_key")
        THEN Raise(SubscriptError(l, "api_key", line + 2)) /\ UNCHANGED <<llm, calls>>
        ELSE LET kwargs == [k \in {"model", "api_key"} \cup DOMAIN fixed |->
                               IF k \in DOMAIN fixed THEN fixed[k] ELSE l.d[k]]
             IN \/ /\ calls' = Append(calls, Call(cls, kwargs, TRUE))
                   /\ llm' = [cls |-> cls, kwargs |-> kwargs]
                   /\ pc' = "kwargs"
                   /\ UNCHANGED exc
                \/ /\ calls' = Append(calls, Call(cls, kwargs, FALSE))
                   /\ \E x \in ExternalErrors : Raise(Exc(x.type, x.msg, line))
                   /\ UNCHANGED llm

\* Lines 23-28: provider == 'gemini'.
ConstructChatGoogle ==
    /\ pc = "dispatch"
    /\ PyEq(provider, "gemini")
    /\ ConstructClient("ChatGoogle", [temperature |-> "0.1"], 24)
    /\ UNCHANGED <<argv, imported, config, provider, browser_kwargs, browser, agent,
                   result, stdout, stderr, exit_status>>

\* Lines 29-35: provider == 'openrouter'.
ConstructChatOpenAI ==
    /\ pc = "dispatch"
    /\ ~PyEq(provider, "gemini")
    /\ PyEq(provider, "openrouter")
    /\ ConstructClient("ChatOpenAI",
                       [base_url |-> "https://openrouter.ai/api/v1",
                        temperature |-> "0.1"], 30)
    /\ UNCHANGED <<argv, imported, config, provider, browser_kwargs, browser, agent,
                   result, stdout, stderr, exit_status>>

\* Lines 36-37: any other provider.
RaiseUnsupportedProvider ==
    /\ pc = "dispatch"
    /\ ~PyEq(provider, "gemini")
    /\ ~PyEq(provider, "openrouter")
    /\ Raise(Exc("ValueError", "Unsupported provider: " \o PyStr(provider), 37))
    /\ UNCHANGED <<argv, imported, locals, stdout, stderr, exit_status, calls>>

----------------------------------------------------------------------------
(* Lines 40-44: the browser session.                                       *)

\* BuildBrowserKwargs without the truth test on the configured value.
BuildBrowserKwargsAnyValue ==
    /\ pc = "kwargs"
    /\ browser_kwargs' =
          IF "chrome_profile_path" \in DOMAIN config.d
            THEN [user_data_dir |-> config.d["chrome_profile_path"]]
            ELSE EmptyDict
    /\ pc' = "browser"
    /\ UNCHANGED <<argv, imported, config, provider, llm, browser, agent, result,
                   exc, stdout, stderr, exit_status, calls>>

\* Lines 40-42.
BuildBrowserKwargs ==
    /\ pc = "kwargs"
    /\ browser_kwargs' =
          IF "chrome_profile_path" \in DOMAIN config.d
             /\ Truthy(config.d["chrome_profile_path"])
            THEN [user_data_dir |-> config.d["chrome_profile_path"]]
            ELSE EmptyDict
    /\ pc' = "browser"
    /\ UNCHANGED <<argv, imported, config, provider, llm, browser, agent, result,
                   exc, stdout, stderr, exit_status, calls>>

\* Line 44: browser = Browser(**browser_kwargs).
ConstructBrowser ==
    /\ pc = "browser"
    /\ \/ /\ calls' = Append(calls, Call("Browser", browser_kwargs, TRUE))
          /\ browser' = [cls |-> "Browser", kwargs |-> browser_kwargs]
          /\ pc' = "agent"
          /\ UNCHANGED exc
       \/ /\ calls' = Append(calls, Call("Browser", browser_kwargs, FALSE))
          /\ \E x \in ExternalErrors : Raise(Exc(x.type, x.msg, 44))
          /\ UNCHANGED browser
    /\ UNCHANGED <<argv, imported, config, provider, llm, browser_kwargs, agent,
                   result, stdout, stderr, exit_status>>

----------------------------------------------------------------------------
(* Lines 47-53: the agent.                                                 *)

\* ConstructAgent reading the task with config.get('task'), which yields
\* None for a missing key instead of raising.
ConstructAgentGetTask ==
    /\ pc = "agent"
    /\ LET task == IF CanSubscript(config, "task") THEN config.d["task"] ELSE JNull
           kwargs == [task |-> task, llm |-> llm, browser |-> browser]
       IN \/ /\ calls' = Append(calls, Call("Agent", kwargs, TRUE))
             /\ agent' = [cls |-> "Agent", kwargs |-> kwargs]
             /\ pc' = "run"
             /\ UNCHANGED exc
          \/ /\ calls' = Append(calls, Call("Agent", kwargs, FALSE))
             /\ \E x \in ExternalErrors : Raise(Exc(x.type, x.msg, 47))
             /\ UNCHANGED agent
    /\ UNCHANGED <<argv, imported, config, provider, llm, browser_kwargs, browser,
                   result, stdout, stderr, exit_status>>

\* Lines 47-51: agent = Agent(task=config['task'], llm=llm, browser=browser).
ConstructAgent ==
    /\ pc = "agent"
    /\ IF ~CanSubscript(config, "task")
         THEN Raise(SubscriptError(config, "task", 48)) /\ UNCHANGED <<agent, calls>>
         ELSE LET kwargs == [task |-> config.d["task"], llm |-> llm, browser |-> browser]
              IN \/ /\ calls' = Append(calls, Call("Agent", kwargs, TRUE))
                    /\ agent' = [cls |-> "Agent", kwargs |-> kwargs]
                    /\ pc' = "run"
                    /\ UNCHANGED exc
                 \/ /\ calls' = Append(calls, Call("Agent", kwargs, FALSE))
                    /\ \E x \in ExternalErrors : Raise(Exc(x.type, x.msg, 47))
                    /\ UNCHANGED agent
    /\ UNCHANGED <<argv, imported, config, provider, llm, browser_kwargs, browser,
                   result, stdout, stderr, exit_status>>

\* RunAgent calling agent.run() again, once, when it raised.
RunAgentRetry ==
    /\ pc = "run"
    /\ \/ /\ calls' = Append(calls, Call("Agent.run", EmptyDict, TRUE))
          /\ result' \in Results
          /\ pc' = "emit"
          /\ UNCHANGED exc
       \/ /\ calls' = Append(calls, Call("Agent.run", EmptyDict, FALSE))
          /\ IF Len(calls) < 4
               THEN pc' = "run" /\ UNCHANGED exc
               ELSE \E x \in ExternalErrors : Raise(Exc(x.type, x.msg, 53))
          /\ UNCHANGED result
    /\ UNCHANGED <<argv, imported, config, provider, llm, browser_kwargs, browser,
                   agent, stdout, stderr, exit_status>>

\* Line 53: result = await agent.run().
RunAgent ==
    /\ pc = "run"
    /\ \/ /\ calls' = Append(calls, Call("Agent.run", EmptyDict, TRUE))
          /\ result' \in Results
          /\ pc' = "emit"
          /\ UNCHANGED exc
       \/ /\ calls' = Append(calls, Call("Agent.run", EmptyDict, FALSE))
          /\ \E x \in ExternalErrors : Raise(Exc(x.type, x.msg, 53))
          /\ UNCHANGED result
    /\ UNCHANGED <<argv, imported, config, provider, llm, browser_kwargs, browser,
                   agent, stdout, stderr, exit_status>>

----------------------------------------------------------------------------
(* Lines 55-67: the two records.                                           *)

\* EmitSuccess echoing the stringified result in the task field.
EmitSuccessTaskFromResult ==
    /\ pc = "emit"
    /\ PrintLine([success |-> TRUE, output |-> StrResult(result),
                  task |-> JStr(StrResult(result))])
    /\ pc' = "return"
    /\ UNCHANGED <<argv, imported, locals, exc, stderr, exit_status, calls>>

\* Lines 55-59.
EmitSuccess ==
    /\ pc = "emit"
    /\ PrintLine([success |-> TRUE, output |-> StrResult(result),
                  task |-> config.d["task"]])
    /\ pc' = "return"
    /\ UNCHANGED <<argv, imported, locals, exc, stderr, exit_status, calls>>

\* HandleException printing the record shape of the import guard.
HandleExceptionErrorOnly ==
    /\ pc = "except"
    /\ PrintLine([success |-> FALSE, error |-> exc.msg])
    /\ pc' = "return"
    /\ UNCHANGED <<argv, imported, locals, exc, stderr, exit_status, calls>>

\* Lines 60-67: except Exception as e.
HandleException ==
    /\ pc = "except"
    /\ PrintLine([success |-> FALSE, error |-> exc.msg, error_type |-> exc.type,
                  traceback |-> exc.line])
    /\ pc' = "return"
    /\ UNCHANGED <<argv, imported, locals, exc, stderr, exit_status, calls>>

\* Lines 69-70: main returns, asyncio.run returns, the interpreter exits.
Exit ==
    /\ pc = "return"
    /\ exit_status' = 0
    /\ pc' = "exited"
    /\ UNCHANGED <<argv, imported, locals, exc, stdout, stderr, calls>>

Next ==
    \/ ImportSucceeds
    \/ ImportFails
    \/ ParseConfig
    \/ ParseConfigFails
    \/ ReadProvider
    \/ ConstructChatGoogle
    \/ ConstructChatOpenAI
    \/ RaiseUnsupportedProvider
    \/ BuildBrowserKwargs
    \/ ConstructBrowser
    \/ ConstructAgent
    \/ RunAgent
    \/ EmitSuccess
    \/ HandleException
    \/ Exit

Spec == Init /\ [][Next]_vars

----------------------------------------------------------------------------
(* Vocabulary of the properties.                                           *)

Exited == pc = "exited"

\* sys.argv[1] exists and decodes.
ArgParses == Len(argv) >= 2 /\ json_loads_ok(argv[2])

\* main has bound config.
Parsed == config # Unbound

\* The configuration has an llm.provider value.
HasProvider ==
    /\ Parsed
    /\ CanSubscript(config, "llm")
    /\ CanSubscript(config.d["llm"], "provider")

ConfigProvider == config.d["llm"].d["provider"]

\* The provider is one of the two recognised strings.
Supported(p) == p = JStr("gemini") \/ p = JStr("openrouter")

\* chrome_profile_path is absent, or present and empty.
NoProfile ==
    \/ "chrome_profile_path" \notin DOMAIN config.d
    \/ config.d["chrome_profile_path"] \in {JStr(""), JNull, JNum(0)}

\* The keyword arguments the browser session is due, by the configuration.
ExpectedBrowserKwargs ==
    IF NoProfile THEN EmptyDict
    ELSE [user_data_dir |-> config.d["chrome_profile_path"]]

LineNos == 1..Len(stdout)

CallsOf(fn) == {i \in 1..Len(calls) : calls[i].fn = fn}

ClientClasses == {"ChatGoogle", "ChatOpenAI"}

\* Something has failed: an exception was raised, or a failure was reported.
Failed ==
    \/ exc # Unbound
    \/ stderr # << >>
    \/ \E i \in LineNos : ~stdout[i].success

\* The failure of config['task'] at line 48.
MissingTaskRaised ==
    /\ exc # Unbound
    /\ exc.type = "KeyError"
    /\ exc.msg = "'task'"

----------------------------------------------------------------------------
(* The claims.                                                             *)

\* C1: whatever path an invocation takes, stdout never holds more than one
\* record, and holds exactly one when the process has terminated.
C1_ExactlyOneRecord ==
    /\ Len(stdout) <= 1
    /\ Exited => Len(stdout) = 1

\* C2: when the argument is absent or does not decode, main's handler turns
\* the failure into one failure record, and nothing leaves main uncaught.
C2_ParseFailureCaught ==
    (Exited /\ imported /\ ~ArgParses) =>
        /\ stderr = << >>
        /\ Len(stdout) = 1
        /\ stdout[1].success = FALSE

\* C3: the exit status is 1 exactly when the import of browser_use failed;
\* every other run ends with status 0.
C3_ExitOneIffImportFails ==
    Exited => /\ (exit_status = 1) <=> ~imported
              /\ imported => exit_status = 0

\* C4: every failure record carries error and error_type, on every path.
C4_FailureCarriesErrorType ==
    \A i \in LineNos :
        ~stdout[i].success => {"error", "error_type"} \subseteq DOMAIN stdout[i]

\* C4 (amended): every failure record carries error; the record main's
\* handler prints also carries error_type and traceback, and the record of
\* the import guard carries nothing but success and error.
C4_FailureShapes ==
    \A i \in LineNos :
        ~stdout[i].success =>
            IF imported
              THEN DOMAIN stdout[i] = {"success", "error", "error_type", "traceback"}
              ELSE DOMAIN stdout[i] = {"success", "error"}

\* A run that the handler reported has ended.
C4_Witness ==
    /\ Exited
    /\ imported
    /\ Len(stdout) = 1
    /\ ~stdout[1].success
    /\ stdout[1].error_type = "KeyError"

\* C5: for a configuration whose llm.provider is neither gemini nor
\* openrouter, every record printed is a failure of type ValueError whose
\* message is "Unsupported provider: " followed by the provider, and the
\* finished run has printed exactly that one record.
C5_UnsupportedProvider ==
    (HasProvider /\ ~Supported(ConfigProvider)) =>
        /\ \A i \in LineNos :
              /\ stdout[i].success = FALSE
              /\ stdout[i].error_type = "ValueError"
              /\ stdout[i].error =
                    "Unsupported provider: "
                       \o (IF ConfigProvider.t = "str" THEN ConfigProvider.s ELSE "None")
        /\ Exited => Len(stdout) = 1

\* The run for the provider "bogus" has ended.
C5_Witness ==
    /\ Exited
    /\ HasProvider
    /\ ConfigProvider = JStr("bogus")
    /\ Len(stdout) = 1
    /\ stdout[1].error = "Unsupported provider: bogus"

\* C6: for a parsed configuration without a task field, no record printed
\* is a success, nothing leaves main uncaught, agent.run is never invoked,
\* and the finished run has printed one failure record.
C6_MissingTask ==
    (Parsed /\ ~CanSubscript(config, "task")) =>
        /\ \A i \in LineNos : stdout[i].success = FALSE
        /\ stderr = << >>
        /\ CallsOf("Agent.run") = {}
        /\ Exited => Len(stdout) = 1

\* A run with a supported provider and a profile path, but no task, has
\* ended with the failure of config['task'].
C6_Witness ==
    /\ Exited
    /\ HasProvider
    /\ Supported(ConfigProvider)
    /\ "task" \notin DOMAIN config.d
    /\ ~NoProfile
    /\ Len(stdout) = 1
    /\ stdout[1].error_type = "KeyError"
    /\ stdout[1].error = "'task'"

\* C7: every construction of the browser session passes no user_data_dir
\* when chrome_profile_path is absent or empty, and passes exactly the
\* configured value as user_data_dir otherwise.
C7_BrowserKwargs ==
    \A i \in CallsOf("Browser") :
        IF NoProfile
          THEN DOMAIN calls[i].kwargs = {}
          ELSE /\ DOMAIN calls[i].kwargs = {"user_data_dir"}
               /\ calls[i].kwargs["user_data_dir"] = config.d["chrome_profile_path"]

\* The browser session was constructed for a configuration whose
\* chrome_profile_path is the empty string.
C7_Witness ==
    /\ CallsOf("Browser") # {}
    /\ "chrome_profile_path" \in DOMAIN config.d
    /\ config.d["chrome_profile_path"] = JStr("")

\* C8: a success record is printed only when agent.run was invoked and
\* returned and no exception was raised; it carries the stringified result
\* as output and the configured task as task; and no run prints both a
\* success record and a failure record.
C8_SuccessRecord ==
    /\ \A i \in LineNos :
          stdout[i].success =>
              /\ exc = Unbound
              /\ \E j \in CallsOf("Agent.run") : calls[j].returned
              /\ \A j \in 1..Len(calls) : calls[j].returned
              /\ result \in Results
              /\ stdout[i].output = "AgentHistoryList(" \o ToString(result) \o ")"
              /\ CanSubscript(config, "task")
              /\ stdout[i].task = config.d["task"]
    /\ \A i, j \in LineNos : stdout[i].success = stdout[j].success

\* A run has ended with a success record.
C8_Witness ==
    /\ Exited
    /\ Len(stdout) = 1
    /\ stdout[1].success
    /\ stdout[1].task = JStr("task1")

\* The calls made so far are a prefix of: client, Browser, Agent, Agent.run,
\* each made once, and only the last call made can have raised.
LinearCalls ==
    /\ Len(calls) <= 4
    /\ \A i \in 1..Len(calls) :
          /\ calls[i].fn \in
                (CASE i = 1 -> ClientClasses
                   [] i = 2 -> {"Browser"}
                   [] i = 3 -> {"Agent"}
                   [] i = 4 -> {"Agent.run"})
          /\ ~calls[i].returned => i = Len(calls)

\* C9: agent.run is invoked at most once, and only after the client, the
\* browser session and the agent were constructed; and once anything has
\* failed, no further call is made and the failure stays.
C9_FireOnce ==
    /\ [](LinearCalls /\ Cardinality(CallsOf("Agent.run")) <= 1)
    /\ [][Failed => (calls' = calls /\ Failed')]_vars

\* A run in which agent.run raised has ended.
C9_Witness ==
    /\ Exited
    /\ Len(calls) = 4
    /\ calls[4].fn = "Agent.run"
    /\ ~calls[4].returned

\* C10: for an unsupported provider nothing is ever constructed; when the
\* missing task is what failed, the client and the browser session were
\* constructed before, the session with the configured user_data_dir, and
\* the agent was not.
C10_InterleavedValidation ==
    /\ (HasProvider /\ ~Supported(ConfigProvider)) => calls = << >>
    /\ MissingTaskRaised =>
          /\ HasProvider
          /\ Supported(ConfigProvider)
          /\ Len(calls) = 2
          /\ calls[1].fn =
                (IF ConfigProvider = JStr("gemini") THEN "ChatGoogle" ELSE "ChatOpenAI")
          /\ calls[1].returned
          /\ calls[2] = Call("Browser", ExpectedBrowserKwargs, TRUE)
          /\ llm # Unbound
          /\ browser # Unbound
          /\ agent = Unbound

\* The missing task was reported after a session with a profile was built.
C10_Witness ==
    /\ Exited
    /\ MissingTaskRaised
    /\ Len(stdout) = 1
    /\ stdout[1].error = "'task'"
    /\ Len(calls) = 2
    /\ "user_data_dir" \in DOMAIN calls[2].kwargs

====
